---- MODULE Spec2Model ----
(***************************************************************************)
(* Workflow-decomposition flow chart (AI-FE/pyramid_model).                *)
(*                                                                         *)
(* The model covers the tree-to-graph layout of a FlowData tree (the       *)
(* store's initializeFromData and the component's                          *)
(* convertFlowDataToNodesAndEdges), the relationship queries used for      *)
(* hover highlighting (getAncestorIds, getDescendantIds) and the           *)
(* incremental, concurrently expanding layout (createLevelNodes with the   *)
(* per-depth extent map depthNodesRef).                                    *)
(*                                                                         *)
(* A FlowData tree is encoded as a sequence of node records indexed by a   *)
(* handle (the JavaScript object identity); handle 1 is the root, par is   *)
(* the handle of the parent (0 for the root) and the children of a node    *)
(* are the handles naming it as parent, in increasing order (the order of  *)
(* the children array).  The id field is the id string of the node.        *)
(***************************************************************************)
EXTENDS Integers, Sequences, FiniteSets, TLC

VARIABLES
  flowData,          \* the FlowData tree handed to the layout (<<>> is null)
  highlightedNodes,  \* FlowChart state: Set<string> of highlighted ids
  nodes,             \* store: Node[]
  edges,             \* store: Edge[]
  related,           \* results of the latest relationship queries
  lastOp,            \* which operation was applied last
  isLoading,         \* FlowChart state of the generating component
  depthNodesRef,     \* Map<number, { start, end }>: extent claimed per depth
  tasks,             \* the createNodesAndEdges calls in flight
  nextId,            \* stands for the fresh `node-${Math.random()}` ids
  isDecomposing,     \* ids of the mounted CustomNodes whose isDecomposing is true
  pending,           \* the handleDecompose calls that await decompose(...)
  workflow,          \* the decomposeWorkflow call of the server: input and outcome
  memo,              \* the memoised handleGenerate: the input and nodes it closes over
  stream             \* the response stream of POST and the locals of its start()

treeVars == <<flowData, highlightedNodes, related>>
genVars == <<isLoading, depthNodesRef, tasks, nextId, memo>>
appVars == <<isDecomposing, pending>>
srvVars == <<workflow, stream>>
vars == <<flowData, highlightedNodes, nodes, edges, related, lastOp,
          isLoading, depthNodesRef, tasks, nextId, isDecomposing, pending,
          workflow, memo, stream>>

----------------------------------------------------------------------------
(* Bounds of the model *)

\* largest number of nodes of an input tree
MaxNodes == 6
\* the empty id string "" is given to no node or to one of the first
\* MaxEmptyAt nodes in pre-order (the root, its first child, ...)
MaxEmptyAt == 2
\* largest highlight set handed to convertFlowDataToNodesAndEdges
MaxHighlight == 2
\* longest input text of the generating component
MaxText == 5
\* longest input text of the expanding component
MaxLabel == 3
\* number of fresh node ids the expanding component may draw
MaxFresh == 5
\* largest number of nodes of a tree under the hover handlers
MaxHoverNodes == 5
\* largest number of parts in a parsed answer of the language model
MaxParts == 3
\* largest number of nodes of a tree handed to the store's operations
MaxStoreNodes == 2
\* the store's onConnect is followed while the edge list is shorter than this
MaxStoreEdges == 1
\* largest number of characters between the fences of a model output
MaxContent == 2

----------------------------------------------------------------------------
(* Program constants *)

NODE_WIDTH == 200
NODE_SPACING == 50
VERTICAL_SPACING == 150
\* the literal of `const childY = y + 150` in initializeFromData
STORE_VERTICAL_STEP == 150

\* ratios of decomposeWorkflow are counted in thousandths: the literals 1 and
\* 0.01 of `Math.abs(totalRatio - 1) > 0.01`
RatioOne == 1000
Tolerance == 10

\* the JavaScript null of a `string | null` parameter
NullId == "<null>"
\* an id that no node of an input tree carries (a stale hover target)
StaleId == "stale"

\* JavaScript truthiness of a `string | null` value: null and "" are falsy
Truthy(s) == s # NullId /\ s # ""

----------------------------------------------------------------------------
(* FlowData trees *)

\* interface FlowData { id; label; depth; ratio; children }
FlowNode(id, par, depth) == [id |-> id, par |-> par, depth |-> depth]

\* node.children, as handles in array order
Kids(T, h) ==
  SelectSeq([i \in 1..Len(T) |-> i], LAMBDA i : T[i].par = h)

\* the ids of all nodes of T
IdsOf(T) == {T[h].id : h \in 1..Len(T)}

\* the handles on the path from the root to h, h included
RECURSIVE PathTo(_, _)
PathTo(T, h) == IF h = 0 THEN <<>> ELSE Append(PathTo(T, T[h].par), h)

\* the (parent.id, child.id) pairs of T
ParentPairs(T) == {<<T[T[h].par].id, T[h].id>> : h \in 2..Len(T)}

\* parent maps of the ordered trees with n nodes, handles in pre-order
RECURSIVE Shapes(_)
Shapes(n) ==
  IF n = 1 THEN {<<0>>}
  ELSE LET RECURSIVE Up(_, _)
           \* h and its ancestors: where the next pre-order node may hang
           Up(s, h) == IF h = 0 THEN {} ELSE {h} \cup Up(s, s[h])
       IN UNION {{Append(s, q) : q \in Up(s, Len(s))} : s \in Shapes(n - 1)}

\* depth of handle h under parent map s
RECURSIVE DepthIn(_, _)
DepthIn(s, h) == IF s[h] = 0 THEN 0 ELSE 1 + DepthIn(s, s[h])

\* the id string of handle h; the node at handle e (if any) has the empty id
IdName(h, e) ==
  IF h = e THEN ""
  ELSE CASE h = 1 -> "root" [] h = 2 -> "n2" [] h = 3 -> "n3" [] h = 4 -> "n4"
         [] h = 5 -> "n5" [] h = 6 -> "n6" [] h = 7 -> "n7" [] OTHER -> "n8"

\* a well-formed tree: unique ids, depth = distance from the root
MakeTree(s, e) == [h \in 1..Len(s) |-> FlowNode(IdName(h, e), s[h], DepthIn(s, h))]

\* the input trees of the pure layout and query functions
InputTrees ==
  UNION {{MakeTree(s, e) : s \in Shapes(n),
                           e \in 0..(IF n < MaxEmptyAt THEN n ELSE MaxEmptyAt)}
           : n \in 1..MaxNodes}

----------------------------------------------------------------------------
(* Layout output *)

\* a reactflow Node: id, position {x, y}, data.depth, data.isHighlighted
LayoutNode(id, x, y, depth, hl) ==
  [id |-> id, x |-> x, y |-> y, depth |-> depth, isHighlighted |-> hl]

\* a parent edge; id is `edge-${source}-${target}`, opacity in tenths
ParentEdge(source, target, animated, opacity) ==
  [id |-> <<"edge", source, target>>, source |-> source, target |-> target,
   strokeWidth |-> 2, animated |-> animated, opacity |-> opacity]

\* a sibling edge; id is `sibling-edge-${source}-${target}`, opacity in tenths
SiblingEdge(source, target, opacity) ==
  [id |-> <<"sibling-edge", source, target>>, source |-> source,
   target |-> target, strokeWidth |-> 1, animated |-> FALSE,
   opacity |-> opacity]

IsParentEdge(e) == e.id[1] = "edge"
IsSiblingEdge(e) == e.id[1] = "sibling-edge"

\* const totalWidth = childrenCount * NODE_WIDTH + (childrenCount - 1) * NODE_SPACING
TotalWidth(childrenCount) ==
  childrenCount * NODE_WIDTH + (childrenCount - 1) * NODE_SPACING

\* const startX = x - totalWidth / 2   (totalWidth is even: 250k - 50)
StartX(x, childrenCount) == x - (TotalWidth(childrenCount) \div 2)

\* mutant: the spacing between siblings is forgotten
ChildX_NoSpacing(startX, index) == startX + index * NODE_WIDTH

\* const childX = startX + index * (NODE_WIDTH + NODE_SPACING), index 0-based
ChildX(startX, index) == startX + index * (NODE_WIDTH + NODE_SPACING)

----------------------------------------------------------------------------
(* The store's layout: useFlowStore.initializeFromData *)

\* mutant: a childless node below the root is not pushed
StorePushNode_LeafLost(T, h, x, y) ==
  IF h # 1 /\ Len(Kids(T, h)) = 0
    THEN <<>>
    ELSE <<LayoutNode(T[h].id, x, y, T[h].depth, FALSE)>>

\* nodes.push({ id, position: {x, y}, data: {..., isNew: false} })
StorePushNode(T, h, x, y) == <<LayoutNode(T[h].id, x, y, T[h].depth, FALSE)>>

\* edges.push({ id: `edge-...`, source: node.id, target: child.id, animated: true })
StorePushParentEdge(T, h, child) ==
  <<ParentEdge(T[h].id, T[child].id, TRUE, 10)>>

\* mutant: the sibling edge joins each child to the first child
StorePushSiblingEdge_FromFirst(T, kids, index) ==
  IF index > 0
    THEN <<SiblingEdge(T[kids[1]].id, T[kids[index + 1]].id, 5)>>
    ELSE <<>>

\* if (index > 0) edges.push({ id: `sibling-edge-...`, source: prevChild.id, ... })
StorePushSiblingEdge(T, kids, index) ==
  IF index > 0
    THEN <<SiblingEdge(T[kids[index]].id, T[kids[index + 1]].id, 5)>>
    ELSE <<>>

RECURSIVE StoreProcessNode(_, _, _, _), StoreForEachChild(_, _, _, _, _, _)

\* node.children.forEach((child, index) => ...), from 0-based index on
StoreForEachChild(T, h, index, startX, y, acc) ==
  LET kids == Kids(T, h) IN
  IF index >= Len(kids) THEN acc
  ELSE LET child == kids[index + 1]
           childX == ChildX(startX, index)
           childY == y + STORE_VERTICAL_STEP
           sub == StoreProcessNode(T, child, childX, childY)
       IN StoreForEachChild(T, h, index + 1, startX, y,
            [nodes |-> acc.nodes \o sub.nodes,
             edges |-> acc.edges \o StorePushParentEdge(T, h, child)
                         \o sub.edges \o StorePushSiblingEdge(T, kids, index)])

\* const processNode = (node, x = 0, y = 0) => { ... }
StoreProcessNode(T, h, x, y) ==
  StoreForEachChild(T, h, 0, StartX(x, Len(Kids(T, h))), y,
                    [nodes |-> StorePushNode(T, h, x, y), edges |-> <<>>])

\* processNode(data); set({ nodes, edges })
StoreLayout(T) == StoreProcessNode(T, 1, 0, 0)

----------------------------------------------------------------------------
(* The component's layout: convertFlowDataToNodesAndEdges *)

\* mutant: one highlighted endpoint is enough
shouldHighlightEdge_Either(H, sourceId, targetId) ==
  sourceId \in H \/ targetId \in H

\* highlightedNodes.has(sourceId) && highlightedNodes.has(targetId)
shouldHighlightEdge(H, sourceId, targetId) == sourceId \in H /\ targetId \in H

\* mutant: a highlighted card is lifted by ten units
ConvPushNode_LiftsHighlighted(T, h, x, y, H) ==
  <<LayoutNode(T[h].id, x, IF T[h].id \in H THEN y - 10 ELSE y, T[h].depth,
               T[h].id \in H)>>

\* nodes.push(node) with isHighlighted = highlightedNodes.has(nodeData.id)
ConvPushNode(T, h, x, y, H) ==
  <<LayoutNode(T[h].id, x, y, T[h].depth, T[h].id \in H)>>

\* if (parentId) { edges.push({ id: `edge-...`, source: parentId, ... }) }
ConvPushParentEdge(T, h, parentId, H) ==
  IF Truthy(parentId)
    THEN LET isHighlighted == shouldHighlightEdge(H, parentId, T[h].id)
         IN <<ParentEdge(parentId, T[h].id, isHighlighted,
                         IF isHighlighted THEN 10 ELSE 2)>>
    ELSE <<>>

\* if (index > 0) { edges.push({ id: `sibling-edge-...`, ... }) }
ConvPushSiblingEdge(T, kids, index, H) ==
  IF index > 0
    THEN LET prevChildId == T[kids[index]].id
             childId == T[kids[index + 1]].id
             isHighlighted == shouldHighlightEdge(H, prevChildId, childId)
         IN <<SiblingEdge(prevChildId, childId,
                          IF isHighlighted THEN 5 ELSE 1)>>
    ELSE <<>>

RECURSIVE ConvProcessNode(_, _, _, _, _, _), ConvForEachChild(_, _, _, _, _, _, _)

\* nodeData.children.forEach((child, index) => ...), from 0-based index on
ConvForEachChild(T, h, index, startX, y, H, acc) ==
  LET kids == Kids(T, h) IN
  IF index >= Len(kids) THEN acc
  ELSE LET child == kids[index + 1]
           childX == ChildX(startX, index)
           childY == y + VERTICAL_SPACING
           sub == ConvProcessNode(T, child, T[h].id, childX, childY, H)
       IN ConvForEachChild(T, h, index + 1, startX, y, H,
            [nodes |-> acc.nodes \o sub.nodes,
             edges |-> acc.edges \o sub.edges
                         \o ConvPushSiblingEdge(T, kids, index, H)])

\* const processNode = (nodeData, parentId, x, y) => { ... }
ConvProcessNode(T, h, parentId, x, y, H) ==
  LET self == [nodes |-> ConvPushNode(T, h, x, y, H),
               edges |-> ConvPushParentEdge(T, h, parentId, H)]
  IN IF Len(Kids(T, h)) > 0
       THEN ConvForEachChild(T, h, 0, StartX(x, Len(Kids(T, h))), y, H, self)
       ELSE self

\* convertFlowDataToNodesAndEdges(data, parentId, x, y, highlightedNodes)
convertFlowDataToNodesAndEdges(T, parentId, x, y, H) ==
  ConvProcessNode(T, 1, parentId, x, y, H)

----------------------------------------------------------------------------
(* Relationship queries: getAncestorIds, getDescendantIds *)

\* the `|| { ancestors: [], siblings: [] }` default and the null-data result
NoRelation == [ancestors |-> <<>>, siblings |-> <<>>]

\* mutant: the filter is forgotten, the target counts among its siblings
SiblingIds_Unfiltered(T, parent, targetId) ==
  IF parent # 0
    THEN [i \in 1..Len(Kids(T, parent)) |-> T[Kids(T, parent)[i]].id]
    ELSE <<>>

\* parent.children.filter((s) => s.id !== targetId).map((s) => s.id), or []
SiblingIds(T, parent, targetId) ==
  IF parent # 0
    THEN LET ids == [i \in 1..Len(Kids(T, parent)) |-> T[Kids(T, parent)[i]].id]
         IN SelectSeq(ids, LAMBDA s : s # targetId)
    ELSE <<>>

\* mutant: the path is built nearest ancestor first
ExtendPath_Reversed(path, id) == <<id>> \o path

\* [...path, currentNode.id]
ExtendPath(path, id) == Append(path, id)

RECURSIVE findAncestorsAndSiblings(_, _, _, _, _), SearchChildren(_, _, _, _, _)

\* for (const child of currentNode.children) { ...; if (result) return result }
\* the result is <<>> for null and <<r>> for an object r
SearchChildren(T, currentNode, index, targetId, path) ==
  LET kids == Kids(T, currentNode) IN
  IF index > Len(kids) THEN <<>>
  ELSE LET result == findAncestorsAndSiblings(T, kids[index], targetId,
                        ExtendPath(path, T[currentNode].id), currentNode)
       IN IF result # <<>> THEN result
          ELSE SearchChildren(T, currentNode, index + 1, targetId, path)

findAncestorsAndSiblings(T, currentNode, targetId, path, parent) ==
  IF T[currentNode].id = targetId
    THEN <<[ancestors |-> path, siblings |-> SiblingIds(T, parent, targetId)]>>
    ELSE SearchChildren(T, currentNode, 1, targetId, path)

\* getAncestorIds(nodeId, data): { ancestors, siblings }
getAncestorIds(nodeId, T) ==
  IF T = <<>> THEN NoRelation
  ELSE LET result == findAncestorsAndSiblings(T, 1, nodeId, <<>>, 0)
       IN IF result # <<>> THEN result[1] ELSE NoRelation

RECURSIVE findDescendants(_, _), DescendantsOfKids(_, _, _)

\* currentNode.children.forEach((child) => descendants.push(...findDescendants(child)))
DescendantsOfKids(T, kids, index) ==
  IF index > Len(kids) THEN <<>>
  ELSE findDescendants(T, kids[index]) \o DescendantsOfKids(T, kids, index + 1)

\* const descendants = [currentNode.id]; ...; return descendants
findDescendants(T, currentNode) ==
  <<T[currentNode].id>> \o DescendantsOfKids(T, Kids(T, currentNode), 1)

RECURSIVE findNode(_, _, _), FindNodeInKids(_, _, _, _)

\* for (const child of currentNode.children) { ...; if (result) return result }
FindNodeInKids(T, kids, index, nodeId) ==
  IF index > Len(kids) THEN 0
  ELSE LET result == findNode(T, kids[index], nodeId)
       IN IF result # 0 THEN result
          ELSE FindNodeInKids(T, kids, index + 1, nodeId)

\* findNode(currentNode): the node with id nodeId, 0 for null
findNode(T, currentNode, nodeId) ==
  IF T[currentNode].id = nodeId THEN currentNode
  ELSE FindNodeInKids(T, Kids(T, currentNode), 1, nodeId)

\* mutant: an id that is not found falls back to the root of the tree
getDescendantIds_RootWhenMissing(nodeId, T) ==
  IF T = <<>> THEN <<>>
  ELSE LET targetNode == findNode(T, 1, nodeId)
       IN findDescendants(T, IF targetNode # 0 THEN targetNode ELSE 1)

\* getDescendantIds(nodeId, data): string[]
getDescendantIds(nodeId, T) ==
  IF T = <<>> THEN <<>>
  ELSE LET targetNode == findNode(T, 1, nodeId)
       IN IF targetNode # 0 THEN findDescendants(T, targetNode) ELSE <<>>

\* the elements of a sequence, as a set
Range(q) == {q[i] : i \in 1..Len(q)}

\* the locals of one hover query: what the handler bound for nodeId
Related(nodeId, T) ==
  LET r == getAncestorIds(nodeId, T)
  IN [nodeId |-> nodeId, ancestors |-> r.ancestors, siblings |-> r.siblings,
      descendants |-> getDescendantIds(nodeId, T)]

\* new Set([nodeId, ...ancestors, ...siblings, ...descendants])
HighlightOf(r) ==
  {r.nodeId} \cup Range(r.ancestors) \cup Range(r.siblings)
    \cup Range(r.descendants)

----------------------------------------------------------------------------
(* The pure layout and query functions applied to a given tree *)

\* the component before any generation
GenIdle ==
  /\ isLoading = FALSE
  /\ depthNodesRef = <<>>
  /\ tasks = {}
  /\ nextId = 1
  /\ isDecomposing = {}
  /\ pending = {}
  /\ workflow = [pc |-> "idle"]
  /\ memo = [input |-> 0, nodes |-> <<>>]
  /\ stream = [pc |-> "idle"]

Init ==
  /\ flowData \in InputTrees \cup {<<>>}
  /\ highlightedNodes = {}
  /\ nodes = <<>>
  /\ edges = <<>>
  /\ related = <<>>
  /\ lastOp = "none"
  /\ GenIdle

\* the highlight sets handed to the layout: ids of the tree and a stale one
HighlightSets(T) ==
  {H \in SUBSET (IdsOf(T) \cup {StaleId}) : Cardinality(H) <= MaxHighlight}

\* useFlowStore.initializeFromData(data): processNode(data); set({ nodes, edges })
InitializeFromData ==
  /\ lastOp = "none"
  /\ flowData # <<>>
  /\ LET r == StoreLayout(flowData)
     IN nodes' = r.nodes /\ edges' = r.edges
  /\ lastOp' = "initializeFromData"
  /\ UNCHANGED <<treeVars, genVars, appVars, srvVars>>

\* the effect of FlowChart: if (flowData) { const { nodes, edges } =
\*   convertFlowDataToNodesAndEdges(flowData, null, 0, 0, highlightedNodes);
\*   setNodes(newNodes); setEdges(newEdges) }
Convert(H) ==
  /\ lastOp = "none"
  /\ flowData # <<>>
  /\ highlightedNodes' = H
  /\ LET r == convertFlowDataToNodesAndEdges(flowData, NullId, 0, 0, H)
     IN nodes' = r.nodes /\ edges' = r.edges
  /\ lastOp' = "convert"
  /\ UNCHANGED <<flowData, related, genVars, appVars, srvVars>>

\* getAncestorIds(nodeId, flowData) and getDescendantIds(nodeId, flowData)
RelatedTo(nodeId) ==
  /\ lastOp = "none"
  /\ related' = <<Related(nodeId, flowData)>>
  /\ lastOp' = "query"
  /\ UNCHANGED <<flowData, highlightedNodes, nodes, edges, genVars, appVars, srvVars>>

Next ==
  \/ InitializeFromData
  \/ \E H \in HighlightSets(flowData) : Convert(H)
  \/ \E nodeId \in IdsOf(flowData) \cup {StaleId} : RelatedTo(nodeId)

Spec == Init /\ [][Next]_vars

----------------------------------------------------------------------------
(* The generating component: decompose, createNodeAndEdge,                  *)
(* createLevelNodes, createNodesAndEdges, handleGenerate.  A text is        *)
(* modelled by its length, a generated node id by a fresh number.           *)

\* the null parentId of the root
NullParent == 0

\* Array.from(splitPoints).sort((a, b) => a - b)
RECURSIVE Sorted(_)
Sorted(S) ==
  IF S = {} THEN <<>>
  ELSE LET m == CHOOSE a \in S : \A b \in S : a <= b
       IN <<m>> \o Sorted(S \ {m})

\* text.slice(startIndex, endIndex) for the sorted split points, then the rest
RECURSIVE SliceLengths(_, _, _, _)
SliceLengths(len, points, i, startIndex) ==
  IF i > Len(points) THEN <<len - startIndex>>
  ELSE <<points[i] - startIndex>> \o SliceLengths(len, points, i + 1, points[i])

\* decompose(text): the part lengths it may return for a text of length len
Decompose(len) ==
  IF len <= 1 THEN {<<>>}
  ELSE LET half == len \div 2
           maxParts == IF half + 1 < 4 THEN half + 1 ELSE 4
       IN IF maxParts <= 2
            THEN {<<half, len - half>>}
            ELSE {SliceLengths(len, Sorted(P), 1, 0) :
                    P \in {Q \in SUBSET (1..(len - 1)) :
                             Cardinality(Q) >= 1 /\ Cardinality(Q) <= maxParts - 1}}

\* mutant: a group is never moved, whatever the depth already holds
ShiftedStartX_Never(startX, depthInfo) == startX

\* mutant: a group is moved only when its start falls inside the extent
ShiftedStartX_InsideOnly(startX, depthInfo) ==
  IF /\ depthInfo # <<>>
     /\ startX >= depthInfo[1].start
     /\ startX - NODE_SPACING < depthInfo[1].end
    THEN depthInfo[1].end + NODE_SPACING
    ELSE startX

\* if (depthInfo) { const rightmostX = depthInfo.end;
\*   if (startX - NODE_SPACING < rightmostX) startX = rightmostX + NODE_SPACING }
\* depthInfo is <<>> when the map has no entry for the depth
ShiftedStartX(startX, depthInfo) ==
  IF depthInfo # <<>> /\ startX - NODE_SPACING < depthInfo[1].end
    THEN depthInfo[1].end + NODE_SPACING
    ELSE startX

\* depthNodesRef.current.get(depth)
DepthInfo(map, depth) == IF depth \in DOMAIN map THEN <<map[depth]>> ELSE <<>>

\* depthNodesRef.current.set(depth, { start: min(...), end: max(...) })
UpdatedExtent(depthInfo, startX, endX) ==
  IF depthInfo # <<>>
    THEN [start |-> IF depthInfo[1].start < startX
                      THEN depthInfo[1].start ELSE startX,
          end |-> IF depthInfo[1].end > endX THEN depthInfo[1].end ELSE endX]
    ELSE [start |-> startX, end |-> endX]

\* the synchronous head of createLevelNodes(parts, parentId, depth, x, y):
\* the group is placed and the extent map updated before the first await
LevelPlacement(parts, depth, x, map) ==
  LET totalWidth == TotalWidth(Len(parts))
      depthInfo == DepthInfo(map, depth)
      startX == ShiftedStartX(x - (totalWidth \div 2), depthInfo)
      endX == startX + totalWidth
  IN [startX |-> startX, depthInfo |-> depthInfo,
      map |-> [d \in DOMAIN map \cup {depth} |->
                 IF d = depth THEN UpdatedExtent(depthInfo, startX, endX)
                 ELSE map[d]]]

\* the Node made by createNodeAndEdge(text, ratio, parentId, depth, x, y)
GenNode(id, label, depth, x, y, isNew) ==
  [id |-> id, label |-> label, depth |-> depth, x |-> x, y |-> y,
   isNew |-> isNew]

\* a createNodesAndEdges(text, parentId, x, y, depth, false) call that awaits
\* decompose(text)
Decomposing(text, parentId, x, y, depth) ==
  [pc |-> "decompose", text |-> text, parentId |-> parentId, x |-> x,
   y |-> y, depth |-> depth, parts |-> <<>>, startX |-> 0,
   depthInfo |-> <<>>, levelNodes |-> <<>>]

\* a createLevelNodes call inside its loop: createNodeAndEdge has pushed the
\* last node of levelNodes and awaits its timer
Creating(parts, parentId, depth, x, y, pl, levelNodes) ==
  [pc |-> "creating", text |-> 0, parentId |-> parentId, x |-> x, y |-> y,
   depth |-> depth, parts |-> parts, startX |-> pl.startX,
   depthInfo |-> pl.depthInfo, levelNodes |-> levelNodes]

\* Promise.all(childNodes.map((childNode) => childNode.data.label.length > 1
\*   ? createNodesAndEdges(label, id, position.x, position.y, depth + 1, false)
\*   : Promise.resolve()))
Expansions(levelNodes, depth) ==
  {Decomposing(levelNodes[i].label, levelNodes[i].id, levelNodes[i].x,
               levelNodes[i].y, depth + 1) :
     i \in {j \in 1..Len(levelNodes) : levelNodes[j].label > 1}}

IncInit ==
  /\ flowData = <<>>
  /\ highlightedNodes = {}
  /\ nodes = <<>>
  /\ edges = <<>>
  /\ related = <<>>
  /\ lastOp = "none"
  /\ GenIdle

\* mutant: the extent map is not cleared before the new generation
HandleGenerate_KeepsExtents(text) ==
  /\ ~isLoading
  /\ LET pl == LevelPlacement(<<text>>, 0, 0, depthNodesRef)
         first == GenNode(1, text, 0, ChildX(pl.startX, 0), 0 + 150, TRUE)
     IN /\ depthNodesRef' = pl.map
        /\ nodes' = <<first>>
        /\ tasks' = {Creating(<<text>>, NullParent, 0, 0, 0 + 150, pl, <<first>>)}
  /\ edges' = <<>>
  /\ nextId' = 2
  /\ isLoading' = TRUE
  /\ lastOp' = IF nodes = <<>> THEN "generate" ELSE "regenerate"
  /\ UNCHANGED <<treeVars, appVars, srvVars, memo>>

\* handleGenerate with the input text: setIsLoading(true); resetDepthNodes();
\* createNodesAndEdges(input, null, 0, 0, 0, true) up to its first timer
HandleGenerate(text) ==
  /\ ~isLoading
  /\ LET pl == LevelPlacement(<<text>>, 0, 0, <<>>)
         first == GenNode(1, text, 0, ChildX(pl.startX, 0), 0 + 150, TRUE)
     IN /\ depthNodesRef' = pl.map
        /\ nodes' = <<first>>
        /\ tasks' = {Creating(<<text>>, NullParent, 0, 0, 0 + 150, pl, <<first>>)}
  /\ edges' = <<>>
  /\ nextId' = 2
  /\ isLoading' = TRUE
  /\ lastOp' = IF nodes = <<>> THEN "generate" ELSE "regenerate"
  /\ UNCHANGED <<treeVars, appVars, srvVars, memo>>

\* decompose(text) resolves for the call t: createLevelNodes places the group
\* and createNodeAndEdge pushes its first node
DecomposeResolves(t, parts) ==
  /\ t \in tasks /\ t.pc = "decompose"
  /\ parts \in Decompose(t.text)
  /\ LET pl == LevelPlacement(parts, t.depth, t.x, depthNodesRef)
         first == GenNode(nextId, parts[1], t.depth, ChildX(pl.startX, 0),
                          t.y + 150, TRUE)
     IN /\ depthNodesRef' = pl.map
        /\ nodes' = Append(nodes, first)
        /\ tasks' = (tasks \ {t}) \cup
             {Creating(parts, t.parentId, t.depth, t.x, t.y + 150, pl, <<first>>)}
  /\ nextId' = nextId + 1
  /\ UNCHANGED <<edges, isLoading, lastOp, treeVars, appVars, srvVars,
                 memo>>

\* the 300 ms timer of createNodeAndEdge fires for the call t: the node loses
\* isNew, gets its parent edge and its sibling edge; then the loop pushes
\* the next node, or createLevelNodes returns and the children are expanded
NodeTimerFires(t) ==
  /\ t \in tasks /\ t.pc = "creating"
  /\ LET i == Len(t.levelNodes)
         node == t.levelNodes[i]
         shown == [k \in 1..Len(nodes) |->
                     IF nodes[k].id = node.id
                       THEN [nodes[k] EXCEPT !.isNew = FALSE] ELSE nodes[k]]
         parentEdge == IF t.parentId # NullParent
                         THEN <<ParentEdge(t.parentId, node.id, TRUE, 10)>>
                         ELSE <<>>
         siblingEdge == IF i > 1
                          THEN <<SiblingEdge(t.levelNodes[i - 1].id, node.id, 5)>>
                          ELSE <<>>
         next == GenNode(nextId, t.parts[i + 1], t.depth,
                         ChildX(t.startX, i), t.y, TRUE)
     IN /\ edges' = edges \o parentEdge \o siblingEdge
        /\ IF i < Len(t.parts)
             THEN /\ nodes' = Append(shown, next)
                  /\ nextId' = nextId + 1
                  /\ tasks' = (tasks \ {t}) \cup
                       {[t EXCEPT !.levelNodes = Append(t.levelNodes, next)]}
             ELSE /\ nodes' = shown
                  /\ nextId' = nextId
                  /\ tasks' = (tasks \ {t}) \cup Expansions(t.levelNodes, t.depth)
  /\ isLoading' = (tasks' # {})
  /\ UNCHANGED <<depthNodesRef, lastOp, treeVars, appVars, srvVars,
                 memo>>

IncNext ==
  \/ \E text \in 0..MaxText : HandleGenerate(text)
  \/ \E t \in tasks : \E parts \in Decompose(t.text) : DecomposeResolves(t, parts)
  \/ \E t \in tasks : NodeTimerFires(t)

SpecInc == IncInit /\ [][IncNext]_vars

----------------------------------------------------------------------------
(* The expanding component: CustomNode.handleDecompose and FlowChart's      *)
(* handleGenerate, hover handlers and effect, over the flow store that      *)
(* holds the tree (flowData, setFlowData, updateFlowDataNode, resetFlow).   *)
(* A label is modelled by its length, a ratio by the fraction num / den.    *)

\* a FlowData of the expanding component: { id, label, depth, ratio, children }
AppNode(id, par, depth, label, ratio) ==
  [id |-> id, par |-> par, depth |-> depth, label |-> label, ratio |-> ratio]

\* the k-th value of `node-${Math.random()}`
FreshId(k) == IdName(k, 0)

\* the values Math.random() takes when a ratio is drawn
RandomSamples == {2, 3}

\* ratio: 1 of the root
WholeRatio == [num |-> 1, den |-> 1]

\* randomRatios.reduce((sum, ratio) => sum + ratio, 0)
RECURSIVE SumSeq(_)
SumSeq(q) == IF q = <<>> THEN 0 ELSE q[1] + SumSeq(Tail(q))

\* randomRatios.map((ratio) => ratio / totalRatio)
NormalizedRatios(randomRatios) ==
  [i \in 1..Len(randomRatios) |->
     [num |-> randomRatios[i], den |-> SumSeq(randomRatios)]]

\* decompose(text): the parts { text, ratio } it may return
DecomposeParts(len) ==
  UNION {{[i \in 1..Len(lens) |->
             [text |-> lens[i], ratio |-> NormalizedRatios(randomRatios)[i]]] :
            randomRatios \in [1..Len(lens) -> RandomSamples]}
           : lens \in Decompose(len)}

\* CustomNode: hasChildren = findNode(flowData), for the node id of the card
RECURSIVE HasChildrenFrom(_, _, _)
HasChildrenFrom(T, h, id) ==
  IF T[h].id = id THEN Len(Kids(T, h)) > 0
  ELSE \E i \in 1..Len(Kids(T, h)) : HasChildrenFrom(T, Kids(T, h)[i], id)

hasChildren(T, id) == T # <<>> /\ HasChildrenFrom(T, 1, id)

\* the data prop of the CustomNode with the given id: label, ratio, depth
NodeData(T, id) == T[CHOOSE h \in 1..Len(T) : T[h].id = id]

\* the ids of the CustomNodes on the canvas
RenderedIds == {nodes[i].id : i \in 1..Len(nodes)}

\* useFlowStore.updateFlowDataNode(nodeId, children): locates nodeId in the
\* current tree and installs children as its child list; a no-op when there
\* is no tree, nodeId is not found or the node already has children
updateFlowDataNode(T, nodeId, children) ==
  IF T = <<>> \/ nodeId \notin IdsOf(T) THEN T
  ELSE LET target == CHOOSE h \in 1..Len(T) : T[h].id = nodeId
       IN IF Len(Kids(T, target)) > 0 THEN T
          ELSE T \o [i \in 1..Len(children) |->
                       [children[i] EXCEPT !.par = target]]

\* the effect of FlowChart on flowData and highlightedNodes; after resetFlow
\* the lists are empty and the effect leaves them alone
AppLayout(T, H) ==
  IF T # <<>> THEN convertFlowDataToNodesAndEdges(T, NullId, 0, 0, H)
  ELSE [nodes |-> <<>>, edges |-> <<>>]

\* the request number of a new handleDecompose call: the least one not in use
NewRequest == CHOOSE k \in 1..(Cardinality(pending) + 1) :
                \A t \in pending : t.req # k

\* mutant: the new root always carries the same id
RootId_Constant(k) == "root"

\* handleGenerate: id: `node-${Math.random()}` of initialData
RootId(k) == FreshId(k)

\* mutant: a second click is not held back while the first is in flight
MayDecompose_NoInFlightGuard(nodeId) ==
  /\ NodeData(flowData, nodeId).label > 1
  /\ ~hasChildren(flowData, nodeId)

\* mutant: a node that already has children may be decomposed again
MayDecompose_IgnoresChildren(nodeId) ==
  /\ nodeId \notin isDecomposing
  /\ NodeData(flowData, nodeId).label > 1

\* handleDecompose goes on past
\* if (isDecomposing || data.label.length <= 1 || hasChildren) return
MayDecompose(nodeId) ==
  /\ nodeId \notin isDecomposing
  /\ NodeData(flowData, nodeId).label > 1
  /\ ~hasChildren(flowData, nodeId)

\* mutant: the flag is cleared at the end of the try block only
SettledFlag_OnlyOnSuccess(flags, nodeId, ok) ==
  IF ok THEN flags \ {nodeId} ELSE flags

\* finally { setIsDecomposing(false) }, after success (ok) and after failure
SettledFlag(flags, nodeId, ok) == flags \ {nodeId}

AppInit ==
  /\ flowData = <<>>
  /\ highlightedNodes = {}
  /\ nodes = <<>>
  /\ edges = <<>>
  /\ related = <<>>
  /\ lastOp = "none"
  /\ GenIdle

\* FlowChart.handleGenerate with a non-blank input (if (!input.trim()) return):
\* resetFlow(); setFlowData({ id, label: input, depth: 0, ratio: 1,
\* children: [] }); the old CustomNodes unmount, the effect lays the root out
AppHandleGenerate(text) ==
  /\ text >= 1
  /\ nextId <= MaxFresh
  /\ flowData' = <<AppNode(RootId(nextId), 0, 0, text, WholeRatio)>>
  /\ nextId' = nextId + 1
  /\ isDecomposing' = {}
  /\ LET r == AppLayout(flowData', highlightedNodes)
     IN nodes' = r.nodes /\ edges' = r.edges
  /\ lastOp' = "generate"
  /\ UNCHANGED <<highlightedNodes, related, pending, isLoading,
                 depthNodesRef, tasks, srvVars,
                 memo>>

\* useFlowStore.resetFlow(): the lists are emptied and the tree discarded;
\* the CustomNodes unmount
AppResetFlow ==
  /\ flowData # <<>>
  /\ flowData' = <<>>
  /\ nodes' = <<>>
  /\ edges' = <<>>
  /\ isDecomposing' = {}
  /\ lastOp' = "reset"
  /\ UNCHANGED <<highlightedNodes, related, pending, genVars, srvVars>>

\* CustomNode.handleDecompose of the card nodeId, up to await decompose(...)
HandleDecompose(nodeId) ==
  /\ nodeId \in RenderedIds
  /\ MayDecompose(nodeId)
  /\ isDecomposing' = isDecomposing \cup {nodeId}
  /\ pending' = pending \cup
       {[req |-> NewRequest, nodeId |-> nodeId,
         label |-> NodeData(flowData, nodeId).label,
         depth |-> NodeData(flowData, nodeId).depth]}
  /\ lastOp' = "decompose"
  /\ UNCHANGED <<flowData, highlightedNodes, nodes, edges, related, genVars, srvVars>>

\* decompose(data.label) resolves with parts for the call t: the children are built and
\* handed to updateFlowDataNode, the flag is cleared, the effect lays out
AppDecomposeResolves(t, parts) ==
  /\ t \in pending
  /\ nextId + Len(parts) - 1 <= MaxFresh
  /\ LET children == [i \in 1..Len(parts) |->
                        AppNode(FreshId(nextId + i - 1), 0, t.depth + 1,
                                parts[i].text, parts[i].ratio)]
     IN flowData' = updateFlowDataNode(flowData, t.nodeId, children)
  /\ nextId' = nextId + Len(parts)
  /\ pending' = pending \ {t}
  /\ isDecomposing' = SettledFlag(isDecomposing, t.nodeId, TRUE)
  /\ LET r == AppLayout(flowData', highlightedNodes)
     IN nodes' = r.nodes /\ edges' = r.edges
  /\ lastOp' = "resolved"
  /\ UNCHANGED <<highlightedNodes, related, isLoading, depthNodesRef, tasks, srvVars,
                 memo>>

\* the decomposition source rejects for the call t:
\* catch (error) { console.error(...) } finally { setIsDecomposing(false) }
AppDecomposeFails(t) ==
  /\ t \in pending
  /\ pending' = pending \ {t}
  /\ isDecomposing' = SettledFlag(isDecomposing, t.nodeId, FALSE)
  /\ lastOp' = "failed"
  /\ UNCHANGED <<flowData, highlightedNodes, nodes, edges, related, genVars, srvVars>>

AppNext ==
  \/ \E text \in 1..MaxLabel : AppHandleGenerate(text)
  \/ AppResetFlow
  \/ \E nodeId \in RenderedIds : HandleDecompose(nodeId)
  \/ \E t \in pending : \E parts \in DecomposeParts(t.label) :
       AppDecomposeResolves(t, parts)
  \/ \E t \in pending : AppDecomposeFails(t)

SpecApp == AppInit /\ [][AppNext]_vars

----------------------------------------------------------------------------
(* The hover handlers of FlowChart over a given tree: the cards and edges   *)
(* on the canvas are those the effect laid out for flowData.                *)

\* mutant: the new set is added to the one already highlighted
HandleNodeMouseEnter_Accumulates(nodeId) ==
  /\ flowData # <<>>
  /\ nodeId \in RenderedIds
  /\ LET r == Related(nodeId, flowData)
         highlighted == HighlightOf(r) \cup highlightedNodes
         l == AppLayout(flowData, highlighted)
     IN /\ related' = <<r>>
        /\ highlightedNodes' = highlighted
        /\ nodes' = l.nodes /\ edges' = l.edges
  /\ lastOp' = "nodeEnter"
  /\ UNCHANGED <<flowData, genVars, appVars, srvVars>>

\* handleNodeMouseEnter(nodeId) for a card on the canvas, then the effect
HandleNodeMouseEnter(nodeId) ==
  /\ flowData # <<>>
  /\ nodeId \in RenderedIds
  /\ LET r == Related(nodeId, flowData)
         highlighted == HighlightOf(r)
         l == AppLayout(flowData, highlighted)
     IN /\ related' = <<r>>
        /\ highlightedNodes' = highlighted
        /\ nodes' = l.nodes /\ edges' = l.edges
  /\ lastOp' = "nodeEnter"
  /\ UNCHANGED <<flowData, genVars, appVars, srvVars>>

\* handleNodeMouseLeave (onNodeMouseLeave and onEdgeMouseLeave), then the
\* effect, which runs only if (flowData)
HandleNodeMouseLeave ==
  /\ highlightedNodes' = {}
  /\ related' = <<>>
  /\ IF flowData # <<>>
       THEN LET l == AppLayout(flowData, {})
            IN nodes' = l.nodes /\ edges' = l.edges
       ELSE UNCHANGED <<nodes, edges>>
  /\ lastOp' = "leave"
  /\ UNCHANGED <<flowData, genVars, appVars, srvVars>>

\* mutant: only the relations of the source are gathered
EdgeHighlight_SourceOnly(sourceId, targetId, sourceRelated, targetRelated) ==
  {sourceId, targetId} \cup HighlightOf(sourceRelated)

\* new Set([sourceId, targetId, ...sourceRelated.ancestors,
\*   ...sourceRelated.siblings, ...sourceDescendants,
\*   ...targetRelated.ancestors, ...targetRelated.siblings, ...targetDescendants])
EdgeHighlight(sourceId, targetId, sourceRelated, targetRelated) ==
  {sourceId, targetId}
    \cup Range(sourceRelated.ancestors) \cup Range(sourceRelated.siblings)
    \cup Range(sourceRelated.descendants)
    \cup Range(targetRelated.ancestors) \cup Range(targetRelated.siblings)
    \cup Range(targetRelated.descendants)

\* handleEdgeMouseEnter(event, edge) for an edge on the canvas, then the effect
HandleEdgeMouseEnter(edge) ==
  /\ flowData # <<>>
  /\ LET sourceId == edge.source
         targetId == edge.target
         sourceRelated == Related(sourceId, flowData)
         targetRelated == Related(targetId, flowData)
         highlighted == EdgeHighlight(sourceId, targetId,
                                      sourceRelated, targetRelated)
         l == AppLayout(flowData, highlighted)
     IN /\ related' = <<sourceRelated, targetRelated>>
        /\ highlightedNodes' = highlighted
        /\ nodes' = l.nodes /\ edges' = l.edges
  /\ lastOp' = "edgeEnter"
  /\ UNCHANGED <<flowData, genVars, appVars, srvVars>>

\* the canvas once the effect has laid the given tree out, nothing hovered
HoverInit ==
  /\ flowData \in {T \in InputTrees : Len(T) <= MaxHoverNodes}
  /\ highlightedNodes = {}
  /\ nodes = AppLayout(flowData, {}).nodes
  /\ edges = AppLayout(flowData, {}).edges
  /\ related = <<>>
  /\ lastOp = "none"
  /\ GenIdle

HoverNext ==
  \/ \E nodeId \in RenderedIds : HandleNodeMouseEnter(nodeId)
  \/ HandleNodeMouseLeave
  \/ \E i \in 1..Len(edges) : HandleEdgeMouseEnter(edges[i])

SpecHover == HoverInit /\ [][HoverNext]_vars

----------------------------------------------------------------------------
(* The server's decomposeWorkflow: what it returns for the parsed answer    *)
(* of the language model.  A part is modelled by its ratio, the ratio of    *)
(* the answer in thousandths, the returned ratio as the fraction num / den. *)

\* the ratios a parsed part carries (z.number().min(0).max(1)), positive;
\* no sum of up to five of them is 0.01 away from 1, where the test
\* `Math.abs(totalRatio - 1) > 0.01` depends on floating-point rounding
WeightSamples == {4, 300, 497, 500, 700}

\* the parsed answers: workflowParser.parse(response)
ParsedAnswers == UNION {[1..k -> WeightSamples] : k \in 1..MaxParts}

\* mutant: the tolerance is ten times too wide
NeedsNormalizing_Loose(totalRatio) ==
  totalRatio - RatioOne > 10 * Tolerance
    \/ RatioOne - totalRatio > 10 * Tolerance

\* Math.abs(totalRatio - 1) > 0.01
NeedsNormalizing(totalRatio) ==
  totalRatio - RatioOne > Tolerance \/ RatioOne - totalRatio > Tolerance

\* the value returned for the parsed answer: parsed.map((item) => ({ ...item,
\* ratio: item.ratio / totalRatio })) if the sum is off, parsed itself if not
ReturnedRatios(parsed) ==
  LET totalRatio == SumSeq(parsed)
  IN IF NeedsNormalizing(totalRatio)
       THEN [i \in 1..Len(parsed) |-> [num |-> parsed[i], den |-> totalRatio]]
       ELSE [i \in 1..Len(parsed) |-> [num |-> parsed[i], den |-> RatioOne]]

\* decomposeWorkflow(text, flowData, nodeId) returns for the parsed answer
DecomposeWorkflowReturns(parsed) ==
  /\ workflow.pc = "idle"
  /\ workflow' = [pc |-> "returned", parsed |-> parsed,
                  ratios |-> ReturnedRatios(parsed)]
  /\ UNCHANGED <<flowData, highlightedNodes, nodes, edges, related, lastOp,
                 genVars, appVars,
                 stream>>

\* a step of decomposeWorkflow fails (the model call, the parser):
\* catch (error) { ...; throw new Error("Failed to decompose workflow") }
DecomposeWorkflowThrows ==
  /\ workflow.pc = "idle"
  /\ workflow' = [pc |-> "failed", error |-> "Failed to decompose workflow"]
  /\ UNCHANGED <<flowData, highlightedNodes, nodes, edges, related, lastOp,
                 genVars, appVars,
                 stream>>

\* the next call of the server action
DecomposeWorkflowCalled ==
  /\ workflow.pc # "idle"
  /\ workflow' = [pc |-> "idle"]
  /\ UNCHANGED <<flowData, highlightedNodes, nodes, edges, related, lastOp,
                 genVars, appVars,
                 stream>>

WorkflowNext ==
  \/ \E parsed \in ParsedAnswers : DecomposeWorkflowReturns(parsed)
  \/ DecomposeWorkflowThrows
  \/ DecomposeWorkflowCalled

SpecWorkflow == AppInit /\ [][WorkflowNext]_vars

----------------------------------------------------------------------------
(* The flow store: useFlowStore with its operations called in any order.    *)
(* flowData records the tree last handed to initializeFromData (the store   *)
(* keeps the lists only); applyNodeChanges, applyEdgeChanges and addEdge    *)
(* are those of reactflow.                                                  *)

\* the trees handed to initializeFromData
StoreTrees == {T \in InputTrees : Len(T) <= MaxStoreNodes}

\* the position a card is dragged to
DragPosition == [x |-> 500, y |-> 500]

\* the node lists a caller hands to setNodes
NodeListSamples == {<<>>, <<LayoutNode("n2", 40, 40, 0, FALSE)>>}

\* the edge lists a caller hands to setEdges
EdgeListSamples == {<<>>, <<ParentEdge("n2", "root", FALSE, 10)>>}

\* the edge reactflow's addEdge makes of a connection
ConnectedEdge(source, target) ==
  [id |-> <<"reactflow__edge", source, target>>, source |-> source,
   target |-> target, strokeWidth |-> 1, animated |-> FALSE, opacity |-> 10]

\* reactflow's addEdge(connection, edges): the edge is appended unless an
\* edge with this source and target exists
addEdge(connection, es) ==
  IF \E i \in 1..Len(es) :
       es[i].source = connection.source /\ es[i].target = connection.target
    THEN es
    ELSE Append(es, ConnectedEdge(connection.source, connection.target))

\* reactflow's applyNodeChanges for one change: { type: "position", id,
\* position } moves the node, { type: "remove", id } drops it
applyNodeChanges(change, ns) ==
  IF change.type = "remove"
    THEN SelectSeq(ns, LAMBDA n : n.id # change.id)
    ELSE [i \in 1..Len(ns) |->
            IF ns[i].id = change.id
              THEN [ns[i] EXCEPT !.x = change.position.x,
                                 !.y = change.position.y]
              ELSE ns[i]]

\* reactflow's applyEdgeChanges for one change { type: "remove", id }
applyEdgeChanges(change, es) == SelectSeq(es, LAMBDA e : e.id # change.id)

StoreInit ==
  /\ flowData = <<>>
  /\ highlightedNodes = {}
  /\ nodes = <<>>
  /\ edges = <<>>
  /\ related = <<>>
  /\ lastOp = "none"
  /\ GenIdle

\* setNodes: (nodes) => set((state) => ({ nodes: ... }))
SetNodes(value) ==
  /\ nodes' = value
  /\ lastOp' = "setNodes"
  /\ UNCHANGED <<flowData, edges, highlightedNodes, related, genVars,
                 appVars, srvVars>>

\* setEdges: (edges) => set((state) => ({ edges: ... }))
SetEdges(value) ==
  /\ edges' = value
  /\ lastOp' = "setEdges"
  /\ UNCHANGED <<flowData, nodes, highlightedNodes, related, genVars,
                 appVars, srvVars>>

\* onNodesChange: nodes: applyNodeChanges(changes, state.nodes)
OnNodesChange(change) ==
  /\ nodes' = applyNodeChanges(change, nodes)
  /\ lastOp' = "onNodesChange"
  /\ UNCHANGED <<flowData, edges, highlightedNodes, related, genVars,
                 appVars, srvVars>>

\* onEdgesChange: edges: applyEdgeChanges(changes, state.edges)
OnEdgesChange(change) ==
  /\ edges' = applyEdgeChanges(change, edges)
  /\ lastOp' = "onEdgesChange"
  /\ UNCHANGED <<flowData, nodes, highlightedNodes, related, genVars,
                 appVars, srvVars>>

\* onConnect: edges: addEdge(connection, state.edges)
OnConnect(connection) ==
  /\ Len(edges) < MaxStoreEdges
  /\ edges' = addEdge(connection, edges)
  /\ lastOp' = "onConnect"
  /\ UNCHANGED <<flowData, nodes, highlightedNodes, related, genVars,
                 appVars, srvVars>>

\* resetFlow: () => set({ nodes: [], edges: [] })
ResetFlow ==
  /\ nodes' = <<>>
  /\ edges' = <<>>
  /\ flowData' = <<>>
  /\ lastOp' = "resetFlow"
  /\ UNCHANGED <<highlightedNodes, related, genVars, appVars, srvVars>>

\* mutant: the new lists are added to those the store holds
StoreInitializeFromData_Appends(data) ==
  /\ flowData' = data
  /\ nodes' = nodes \o StoreLayout(data).nodes
  /\ edges' = edges \o StoreLayout(data).edges
  /\ lastOp' = "initializeFromData"
  /\ UNCHANGED <<highlightedNodes, related, genVars, appVars, srvVars>>

\* initializeFromData(data), whatever the store holds:
\* processNode(data); set({ nodes, edges })
StoreInitializeFromData(data) ==
  /\ flowData' = data
  /\ nodes' = StoreLayout(data).nodes
  /\ edges' = StoreLayout(data).edges
  /\ lastOp' = "initializeFromData"
  /\ UNCHANGED <<highlightedNodes, related, genVars, appVars, srvVars>>

StoreNext ==
  \/ \E value \in NodeListSamples : SetNodes(value)
  \/ \E value \in EdgeListSamples : SetEdges(value)
  \/ \E id \in RenderedIds :
       \/ OnNodesChange([type |-> "position", id |-> id,
                         position |-> DragPosition])
       \/ OnNodesChange([type |-> "remove", id |-> id])
  \/ \E i \in 1..Len(edges) : OnEdgesChange([type |-> "remove", id |-> edges[i].id])
  \/ \E source, target \in RenderedIds :
       OnConnect([source |-> source, target |-> target])
  \/ ResetFlow
  \/ \E data \in StoreTrees : StoreInitializeFromData(data)

SpecStore == StoreInit /\ [][StoreNext]_vars

----------------------------------------------------------------------------
(* The generating component's mount: its effect hands a fixed tree to the   *)
(* store, and the canvas then sends the store React Flow's changes.         *)

\* ratio: 0.5 of every seeded child
HalfRatio == [num |-> 1, den |-> 2]

\* const data: FlowData = { id: "root", ... } of the mount effect; handles
\* in pre-order, a label by its length
SeededTree ==
  <<AppNode("root", 0, 0, 3, WholeRatio),
    AppNode("child1", 1, 1, 4, HalfRatio),
    AppNode("child2", 1, 1, 4, HalfRatio),
    AppNode("child4", 3, 1, 4, HalfRatio),
    AppNode("child3", 1, 1, 4, HalfRatio)>>

\* useEffect(() => { ...; initializeFlow(data) }, []) with
\* initializeFlow = resetDepthNodes(); initializeFromData(data)
InitializeFlow ==
  /\ lastOp = "none"
  /\ depthNodesRef' = <<>>
  /\ flowData' = SeededTree
  /\ nodes' = StoreLayout(SeededTree).nodes
  /\ edges' = StoreLayout(SeededTree).edges
  /\ lastOp' = "initializeFlow"
  /\ UNCHANGED <<highlightedNodes, related, isLoading, tasks, nextId,
                 appVars, srvVars,
                 memo>>

SeededNext ==
  \/ InitializeFlow
  \/ \E id \in RenderedIds :
       \/ OnNodesChange([type |-> "position", id |-> id,
                         position |-> DragPosition])
       \/ OnNodesChange([type |-> "remove", id |-> id])
  \/ \E i \in 1..Len(edges) :
       OnEdgesChange([type |-> "remove", id |-> edges[i].id])
  \/ \E source, target \in RenderedIds :
       OnConnect([source |-> source, target |-> target])

SpecSeeded == StoreInit /\ [][SeededNext]_vars

----------------------------------------------------------------------------
(* The first generating component (sequential): decompose in two parts,     *)
(* createNodeAndEdge, createLevelNodes, createNodesAndEdges with its        *)
(* lookup in the nodes of the render, handleGenerate without try/finally.   *)
(* A text is modelled by its length; the ids of the nodes that the          *)
(* memoised handleGenerate closes over are written as negative numbers,      *)
(* those of the running generation as positive ones.                        *)

\* the undefined that nodes.find returns when no node carries the label
Undefined == 0

\* decompose(text): string[] of the first component
SeqDecompose(len) ==
  IF len <= 1 THEN {<<len>>}
  ELSE {<<splitIndex, len - splitIndex>> : splitIndex \in 1..(len - 1)}

\* the Node made by createNodeAndEdge(text, parentId, x, y)
SeqNode(id, label, x, y, isNew) ==
  [id |-> id, label |-> label, x |-> x, y |-> y, isNew |-> isNew]

\* x + (i - texts.length / 2 + 0.5) * 250
SeqChildX(x, i, count) == x + ((2 * i - count + 1) * 125)

\* a createNodesAndEdges(text, parentId, x, y, depth, isRoot) call: its
\* currentNode, the parts it decomposed into, the child nodes made so far
\* and the child its loop has reached
SeqFrame(text, currentNode, x, y) ==
  [text |-> text, currentNode |-> currentNode, x |-> x, y |-> y,
   parts |-> <<>>, childNodes |-> <<>>, next |-> 1]

\* nodes.find((node) => node.data.label === text) over the nodes of the
\* render that handleGenerate closes over: a node with a label of this
\* length may or may not carry the same text
Find(text) ==
  {Undefined} \cup {memo.nodes[i].id :
                      i \in {j \in 1..Len(memo.nodes) : memo.nodes[j].label = text}}

\* for (const childNode of childNodes) if (childNode.data.label.length > 1):
\* the label of the next call the loops of the stack reach, 0 if none
RECURSIVE NextExpanded(_)
NextExpanded(stack) ==
  IF stack = <<>> THEN 0
  ELSE LET f == stack[Len(stack)]
       IN IF f.next > Len(f.childNodes)
            THEN NextExpanded(SubSeq(stack, 1, Len(stack) - 1))
            ELSE IF f.childNodes[f.next].label > 1
                   THEN f.childNodes[f.next].label
                   ELSE NextExpanded([stack EXCEPT ![Len(stack)].next = f.next + 1])

\* the stack once the loops have run up to their next await: the call of
\* createNodesAndEdges for the next child with a label longer than 1, whose
\* currentNode is found; <<>> when every loop has ended
RECURSIVE Advance(_, _)
Advance(stack, found) ==
  IF stack = <<>> THEN <<>>
  ELSE LET f == stack[Len(stack)]
           stepped == [stack EXCEPT ![Len(stack)].next = f.next + 1]
       IN IF f.next > Len(f.childNodes)
            THEN Advance(SubSeq(stack, 1, Len(stack) - 1), found)
            ELSE LET childNode == f.childNodes[f.next]
                 IN IF childNode.label > 1
                      THEN Append(stepped, SeqFrame(childNode.label, found,
                                                    childNode.x, childNode.y))
                      ELSE Advance(stepped, found)

\* setNodes((prevNodes) => prevNodes.map(... isNew: false ...))
Shown(ns, id) ==
  [k \in 1..Len(ns) |->
     IF ns[k].id = id THEN [ns[k] EXCEPT !.isNew = FALSE] ELSE ns[k]]

\* the nodes of a render as a later handleGenerate sees them
Captured(ns) ==
  [k \in 1..Len(ns) |-> [id |-> 0 - ns[k].id, label |-> ns[k].label]]

SeqInit ==
  /\ flowData = <<>>
  /\ highlightedNodes = {}
  /\ nodes = <<>>
  /\ edges = <<>>
  /\ related = <<>>
  /\ lastOp = "none"
  /\ GenIdle

\* onChange of the Input (disabled while loading): setInput, and useCallback
\* makes a new handleGenerate over the input and the nodes of this render
SetInput(text) ==
  /\ ~isLoading
  /\ text # memo.input
  /\ memo' = [input |-> text, nodes |-> Captured(nodes)]
  /\ lastOp' = "setInput"
  /\ UNCHANGED <<nodes, edges, treeVars, isLoading, depthNodesRef, tasks,
                 nextId, appVars, srvVars>>

\* handleGenerate: setIsLoading(true); setNodes([]); setEdges([]);
\* createNodesAndEdges(input, null, 0, 0, 0, true) up to the timer of the root
SeqHandleGenerate ==
  /\ ~isLoading
  /\ isLoading' = TRUE
  /\ nodes' = <<SeqNode(1, memo.input, 0, 0, TRUE)>>
  /\ edges' = <<>>
  /\ nextId' = 2
  /\ tasks' = {[pc |-> "root", stack |-> <<SeqFrame(memo.input, 1, 0, 0)>>]}
  /\ lastOp' = "generate"
  /\ UNCHANGED <<treeVars, depthNodesRef, memo, appVars, srvVars>>

\* the timer of the root's createNodeAndEdge fires: the root loses isNew and
\* gets no edge; if (text.length > 1) decompose(text) is awaited, otherwise
\* createNodesAndEdges returns and handleGenerate calls setIsLoading(false)
SeqRootTimerFires(t) ==
  /\ t \in tasks /\ t.pc = "root"
  /\ nodes' = Shown(nodes, t.stack[1].currentNode)
  /\ IF t.stack[1].text > 1
       THEN /\ tasks' = {[t EXCEPT !.pc = "decompose"]}
            /\ UNCHANGED <<isLoading, lastOp>>
       ELSE /\ tasks' = {}
            /\ isLoading' = FALSE
            /\ lastOp' = "finished"
  /\ UNCHANGED <<edges, treeVars, depthNodesRef, nextId, memo, appVars, srvVars>>

\* decompose(text) resolves: createLevelNodes(parts, currentNode.id, x,
\* y + 150) is called, which throws a TypeError when currentNode is
\* undefined (the promise of handleGenerate is rejected before
\* setIsLoading(false)); otherwise createNodeAndEdge pushes the first child
SeqDecomposeResolves(t, parts) ==
  /\ t \in tasks /\ t.pc = "decompose"
  /\ LET f == t.stack[Len(t.stack)]
         first == SeqNode(nextId, parts[1], SeqChildX(f.x, 0, Len(parts)),
                          f.y + 150, TRUE)
     IN IF f.currentNode = Undefined
          THEN /\ tasks' = {}
               /\ lastOp' = "threw"
               /\ UNCHANGED <<nodes, nextId>>
          ELSE /\ nodes' = Append(nodes, first)
               /\ nextId' = nextId + 1
               /\ tasks' = {[pc |-> "level",
                             stack |-> [t.stack EXCEPT ![Len(t.stack)] =
                                          [f EXCEPT !.parts = parts,
                                                    !.childNodes = <<first>>]]]}
               /\ UNCHANGED lastOp
  /\ UNCHANGED <<edges, isLoading, treeVars, depthNodesRef, memo, appVars, srvVars>>

\* the timer of a child's createNodeAndEdge fires: the child loses isNew and
\* gets its parent edge; createLevelNodes pushes the next child, or returns
\* and the loop over the children runs to its next createNodesAndEdges call
\* (with the found currentNode) or to the end, where handleGenerate calls
\* setIsLoading(false)
SeqLevelTimerFires(t, found) ==
  /\ t \in tasks /\ t.pc = "level"
  /\ LET f == t.stack[Len(t.stack)]
         i == Len(f.childNodes)
         node == f.childNodes[i]
         next == SeqNode(nextId, f.parts[i + 1],
                         SeqChildX(f.x, i, Len(f.parts)), f.y + 150, TRUE)
     IN /\ edges' = Append(edges, ParentEdge(f.currentNode, node.id, TRUE, 10))
        /\ IF i < Len(f.parts)
             THEN /\ found = Undefined
                  /\ nodes' = Append(Shown(nodes, node.id), next)
                  /\ nextId' = nextId + 1
                  /\ tasks' = {[t EXCEPT !.stack[Len(t.stack)].childNodes =
                                           Append(f.childNodes, next)]}
                  /\ UNCHANGED <<isLoading, lastOp>>
             ELSE /\ found \in Find(NextExpanded(t.stack))
                  /\ nodes' = Shown(nodes, node.id)
                  /\ nextId' = nextId
                  /\ LET stack == Advance(t.stack, found)
                     IN IF stack # <<>>
                          THEN /\ tasks' = {[pc |-> "decompose", stack |-> stack]}
                               /\ UNCHANGED <<isLoading, lastOp>>
                          ELSE /\ found = Undefined
                               /\ tasks' = {}
                               /\ isLoading' = FALSE
                               /\ lastOp' = "finished"
  /\ UNCHANGED <<treeVars, depthNodesRef, memo, appVars, srvVars>>

\* the steps the event loop takes by itself: timers and resolved promises
SeqRuns ==
  \/ \E t \in tasks : SeqRootTimerFires(t)
  \/ \E t \in tasks : \E parts \in SeqDecompose(t.stack[Len(t.stack)].text) :
       SeqDecomposeResolves(t, parts)
  \/ \E t \in tasks : \E found \in Find(NextExpanded(t.stack)) \cup {Undefined} :
       SeqLevelTimerFires(t, found)

SeqNext ==
  \/ \E text \in 0..MaxText : SetInput(text)
  \/ SeqHandleGenerate
  \/ SeqRuns

SpecSeq == SeqInit /\ [][SeqNext]_vars /\ WF_vars(SeqRuns)

----------------------------------------------------------------------------
(* The route handler: POST answers with a ReadableStream whose start()      *)
(* reads the chunks of the model stream and enqueues the characters of the  *)
(* fenced json block.  A string is a sequence of characters.                *)

\* the character ` of the fences
Backtick == "backtick"

\* "```json"
OpenFence == <<Backtick, Backtick, Backtick, "j", "s", "o", "n">>

\* "```"
CloseFence == <<Backtick, Backtick, Backtick>>

\* the strings over {"a", "b"} with at most n characters
RECURSIVE Texts(_)
Texts(n) ==
  IF n = 0 THEN {<<>>}
  ELSE Texts(n - 1) \cup
         {Append(t, c) : t \in {u \in Texts(n - 1) : Len(u) = n - 1},
                         c \in {"a", "b"}}

\* the model outputs with one fenced json block: text before the block, the
\* content of the block, text after it
ModelOutputs ==
  {[before |-> before, content |-> content, after |-> after] :
     before \in Texts(1), content \in Texts(MaxContent), after \in Texts(1)}

\* the characters of a model output, in order
FullText(output) ==
  output.before \o OpenFence \o output.content \o CloseFence \o output.after

\* buffer.indexOf(pattern): 0-based, -1 when the pattern does not occur
IndexOf(buffer, pattern) ==
  LET hits == {i \in 0..(Len(buffer) - Len(pattern)) :
                 SubSeq(buffer, i + 1, i + Len(pattern)) = pattern}
  IN IF hits = {} THEN 0 - 1
     ELSE CHOOSE i \in hits : \A j \in hits : i <= j

\* buffer.slice(from)
SliceFrom(buffer, from) == SubSeq(buffer, from + 1, Len(buffer))

\* POST is called and the model starts streaming the output:
\* let buffer = ""; let inJsonBlock = false
PostCalled(output) ==
  /\ stream.pc \in {"idle", "closed"}
  /\ stream' = [pc |-> "reading", output |-> output, rest |-> FullText(output),
                buffer |-> <<>>, inJsonBlock |-> FALSE, enqueued |-> <<>>]
  /\ UNCHANGED <<flowData, highlightedNodes, nodes, edges, related, lastOp,
                 genVars, appVars, workflow>>

\* one turn of `for await (const chunk of modelStream)` with a chunk of
\* size characters; after a break, controller.close()
StreamChunk(size) ==
  /\ stream.pc = "reading"
  /\ size \in 1..Len(stream.rest)
  /\ LET buffer == stream.buffer \o SubSeq(stream.rest, 1, size)
         rest == SliceFrom(stream.rest, size)
         endIndex == IndexOf(buffer, CloseFence)
     IN stream' =
          IF ~stream.inJsonBlock /\ IndexOf(buffer, OpenFence) # 0 - 1
            THEN [stream EXCEPT
                    !.rest = rest, !.inJsonBlock = TRUE,
                    !.buffer = SliceFrom(buffer, IndexOf(buffer, OpenFence) + 7)]
            ELSE IF stream.inJsonBlock
              THEN IF endIndex # 0 - 1
                     THEN [stream EXCEPT
                             !.pc = "closed", !.rest = rest, !.buffer = buffer,
                             !.inJsonBlock = FALSE,
                             !.enqueued = stream.enqueued
                                            \o SubSeq(buffer, 1, endIndex)]
                     ELSE [stream EXCEPT
                             !.rest = rest, !.buffer = <<>>,
                             !.enqueued = stream.enqueued \o buffer]
              ELSE [stream EXCEPT !.rest = rest, !.buffer = buffer]
  /\ UNCHANGED <<flowData, highlightedNodes, nodes, edges, related, lastOp,
                 genVars, appVars, workflow>>

\* the model stream ends: the loop is left and controller.close() is called
StreamEnds ==
  /\ stream.pc = "reading"
  /\ stream.rest = <<>>
  /\ stream' = [stream EXCEPT !.pc = "closed"]
  /\ UNCHANGED <<flowData, highlightedNodes, nodes, edges, related, lastOp,
                 genVars, appVars, workflow>>

StreamNext ==
  \/ \E output \in ModelOutputs : PostCalled(output)
  \/ \E size \in 1..(IF stream.pc = "reading" THEN Len(stream.rest) ELSE 0) :
       StreamChunk(size)
  \/ StreamEnds

SpecStream == AppInit /\ [][StreamNext]_vars

----------------------------------------------------------------------------
(* Properties of the layout of a given tree *)

\* a layout of flowData has been written to nodes and edges
LaidOut == lastOp \in {"initializeFromData", "convert"}

\* countNodes(T): the nodes of the subtree at h, counted along the children
RECURSIVE CountNodes(_, _), CountKids(_, _, _)
CountKids(T, kids, index) ==
  IF index > Len(kids) THEN 0
  ELSE CountNodes(T, kids[index]) + CountKids(T, kids, index + 1)
CountNodes(T, h) == 1 + CountKids(T, Kids(T, h), 1)

\* the positions of the node list that carry id
NodeIndexes(id) == {i \in 1..Len(nodes) : nodes[i].id = id}
\* the layout node of id (ids are unique in a well-formed tree)
NodeAt(id) == nodes[CHOOSE i \in 1..Len(nodes) : nodes[i].id = id]

ParentEdgeIndexes == {i \in 1..Len(edges) : IsParentEdge(edges[i])}
SiblingEdgeIndexes == {i \in 1..Len(edges) : IsSiblingEdge(edges[i])}

\* C1: the layout of a well-formed tree holds exactly one layout node per
\* tree node: as many nodes as countNodes(T), every id exactly once.
C1_OneNodePerTreeNode ==
  LaidOut =>
    /\ Len(nodes) = CountNodes(flowData, 1)
    /\ \A h \in 1..Len(flowData) :
         Cardinality(NodeIndexes(flowData[h].id)) = 1

C1_Witness ==
  /\ lastOp = "initializeFromData"
  /\ Len(flowData) = 5
  /\ Len(nodes) = 5
  /\ \E h \in 1..5 : Len(Kids(flowData, h)) = 2

\* C2 (as claimed): for every tree, whatever its id strings, the parent edges
\* of the layout are exactly the (parent.id, child.id) pairs of the tree, one
\* edge per pair.
C2_ParentEdgesExact ==
  LaidOut =>
    /\ {<<edges[i].source, edges[i].target>> : i \in ParentEdgeIndexes}
         = ParentPairs(flowData)
    /\ Cardinality(ParentEdgeIndexes) = Len(flowData) - 1

\* the sibling edges that leave a child of h, in the order of the edge list
SiblingEdgesUnder(T, h) ==
  LET kidIds == {T[Kids(T, h)[i]].id : i \in 1..Len(Kids(T, h))}
  IN SelectSeq(edges, LAMBDA e : IsSiblingEdge(e) /\ e.source \in kidIds)

\* C3: under every parent with k children the layout emits exactly
\* max(k-1, 0) sibling edges, children[i-1] -> children[i] in the order of
\* the children, and every sibling edge joins two consecutive children of
\* one parent.
C3_SiblingEdges ==
  LaidOut =>
    /\ \A h \in 1..Len(flowData) :
         LET kids == Kids(flowData, h)
             k == Len(kids)
             sib == SiblingEdgesUnder(flowData, h)
         IN /\ Len(sib) = (IF k >= 1 THEN k - 1 ELSE 0)
            /\ \A i \in 1..Len(sib) :
                 /\ i + 1 <= k
                 /\ sib[i].source = flowData[kids[i]].id
                 /\ sib[i].target = flowData[kids[i + 1]].id
    /\ \A j \in SiblingEdgeIndexes :
         \E h \in 1..Len(flowData) :
           \E i \in 1..(Len(Kids(flowData, h)) - 1) :
             /\ edges[j].source = flowData[Kids(flowData, h)[i]].id
             /\ edges[j].target = flowData[Kids(flowData, h)[i + 1]].id

C3_Witness ==
  /\ lastOp = "initializeFromData"
  /\ \E h \in 1..Len(flowData) :
       /\ Len(Kids(flowData, h)) = 3
       /\ Len(SiblingEdgesUnder(flowData, h)) = 2
  /\ \E h \in 1..Len(flowData) : Len(Kids(flowData, h)) = 1

\* C4: a node at (px, py) with k >= 1 children has child i (0-based) at
\* x = px - (k*200 + (k-1)*50)/2 + i*250 and y = py + 150; hence a node at
\* distance d from the root has y = rootY + 150*d.
C4_ChildPositions ==
  LaidOut =>
    /\ \A h \in 1..Len(flowData) :
         LET kids == Kids(flowData, h)
             k == Len(kids)
             p == NodeAt(flowData[h].id)
         IN \A i \in 0..(k - 1) :
              LET c == NodeAt(flowData[kids[i + 1]].id)
              IN /\ c.x = p.x - ((k * 200 + (k - 1) * 50) \div 2) + i * 250
                 /\ c.y = p.y + 150
    /\ \A h \in 1..Len(flowData) :
         NodeAt(flowData[h].id).y
           = NodeAt(flowData[1].id).y + 150 * (Len(PathTo(flowData, h)) - 1)

C4_Witness ==
  /\ lastOp = "convert"
  /\ \E h \in 2..Len(flowData) :
       /\ Len(Kids(flowData, h)) = 2
       /\ NodeAt(flowData[h].id).x # 0
       /\ NodeAt(flowData[Kids(flowData, h)[2]].id).y = 300

\* the emphasis of an edge: a parent edge is animated at full opacity, a
\* sibling edge is drawn at opacity 0.5
Emphasized(e) ==
  IF IsParentEdge(e) THEN e.animated /\ e.opacity = 10 ELSE e.opacity = 5
\* an edge drawn plainly: parent edge still at 0.2, sibling edge at 0.1
Plain(e) ==
  IF IsParentEdge(e) THEN ~e.animated /\ e.opacity = 2 ELSE e.opacity = 1

\* C5: every edge emitted by convertFlowDataToNodesAndEdges is emphasized
\* if and only if both its source and its target are in the highlight set;
\* with the empty set no edge is emphasized.
C5_EmphasizedIffBoth ==
  lastOp = "convert" =>
    \A i \in 1..Len(edges) :
      LET both == edges[i].source \in highlightedNodes
                    /\ edges[i].target \in highlightedNodes
      IN /\ Emphasized(edges[i]) <=> both
         /\ Plain(edges[i]) <=> ~both

C5_Witness ==
  /\ lastOp = "convert"
  /\ \E i \in ParentEdgeIndexes : Emphasized(edges[i])
  /\ \E i \in ParentEdgeIndexes :
       Plain(edges[i]) /\ edges[i].target \in highlightedNodes
  /\ \E i \in SiblingEdgeIndexes :
       Plain(edges[i]) /\ edges[i].source \in highlightedNodes

\* C6 (as claimed): in the layout of the full-relayout engine no two
\* distinct nodes with the same y have x positions less than NODE_WIDTH apart.
\* Stated for the trees all of whose ids are non-empty, so that a violation
\* owes nothing to the id strings.
C6_NoOverlapAtSameDepth ==
  (LaidOut /\ "" \notin IdsOf(flowData)) =>
    \A i, j \in 1..Len(nodes) :
      (i # j /\ nodes[i].y = nodes[j].y) =>
        (nodes[i].x - nodes[j].x >= 200 \/ nodes[j].x - nodes[i].x >= 200)

----------------------------------------------------------------------------
(* Properties of the relationship queries *)

\* the query was for the id of node h of the tree
QueriedNode(h) ==
  /\ lastOp = "query"
  /\ flowData # <<>>
  /\ h \in 1..Len(flowData)
  /\ related[1].nodeId = flowData[h].id

\* the ids of a sequence of handles
IdsAlong(T, hs) == [i \in 1..Len(hs) |-> T[hs[i]].id]

\* the nodes of the subtree rooted at h, h included
Subtree(T, h) == {g \in 1..Len(T) : \E i \in 1..Len(PathTo(T, g)) : PathTo(T, g)[i] = h}

\* C8: the ancestors of node n are the ids on the path from the root to n,
\* without n, root first; there are as many as edges from the root to n,
\* which is n.depth in a well-formed tree.
C8_AncestorsRootFirst ==
  \A h \in 1..Len(flowData) :
    QueriedNode(h) =>
      LET path == PathTo(flowData, h)
          a == related[1].ancestors
      IN /\ Len(a) = Len(path) - 1
         /\ \A i \in 1..Len(a) : a[i] = flowData[path[i]].id
         /\ Len(a) = flowData[h].depth

C8_Witness ==
  \E h \in 1..Len(flowData) :
    /\ QueriedNode(h)
    /\ Len(related[1].ancestors) = 3
    /\ related[1].ancestors[1] = flowData[1].id

\* C9: the siblings of node n are exactly the ids of the other children of
\* the parent of n, never n itself; the root has none.
C9_SiblingsOfParent ==
  \A h \in 1..Len(flowData) :
    QueriedNode(h) =>
      LET s == related[1].siblings
          others == SelectSeq(Kids(flowData, flowData[h].par),
                              LAMBDA g : g # h)
      IN /\ s = IdsAlong(flowData, others)
         /\ \A i \in 1..Len(s) : s[i] # flowData[h].id
         /\ (h = 1 => s = <<>>)

C9_Witness ==
  \E h \in 2..Len(flowData) :
    /\ QueriedNode(h)
    /\ Len(related[1].siblings) = 1
    /\ \E g \in 2..Len(flowData) :
         flowData[g].par # flowData[h].par /\ flowData[g].depth = flowData[h].depth

\* C10 (as claimed): the descendants of node n are exactly the ids of the
\* nodes of the subtree rooted at n without n itself; a leaf has none.
\* Stated for the trees all of whose ids are non-empty, so that a violation
\* owes nothing to the id strings.
C10_ProperDescendants ==
  \A h \in 1..Len(flowData) :
    (QueriedNode(h) /\ "" \notin IdsOf(flowData)) =>
      /\ Range(related[1].descendants)
           = {flowData[g].id : g \in Subtree(flowData, h) \ {h}}
      /\ Len(related[1].descendants) = Cardinality(Subtree(flowData, h)) - 1

\* C11: a relationship query for an id that no node of the tree carries,
\* the null tree included, returns empty ancestors, empty siblings and empty
\* descendants (the query is a total function: it yields a value, no error).
C11_StaleQueryEmpty ==
  (lastOp = "query" /\ related[1].nodeId \notin IdsOf(flowData)) =>
    /\ related[1].ancestors = <<>>
    /\ related[1].siblings = <<>>
    /\ related[1].descendants = <<>>

C11_Witness ==
  /\ lastOp = "query"
  /\ related[1].nodeId = StaleId
  /\ Len(flowData) = 5
  /\ \E h \in 1..Len(flowData) : Len(Kids(flowData, h)) = 2
  /\ related[1].descendants = <<>>

----------------------------------------------------------------------------
(* Properties of the hover handlers *)

\* the node of T that carries id
HandleOf(T, id) == CHOOSE h \in 1..Len(T) : T[h].id = id

\* the ids of the ancestors, the siblings and the proper descendants of the
\* node carrying id, read off the tree; empty for an id the tree lacks
RelativesOf(T, id) ==
  IF id \notin IdsOf(T) THEN {}
  ELSE LET h == HandleOf(T, id)
           path == PathTo(T, h)
       IN {T[path[i]].id : i \in 1..(Len(path) - 1)}
            \cup {T[g].id : g \in {k \in 2..Len(T) : T[k].par = T[h].par} \ {h}}
            \cup {T[g].id : g \in Subtree(T, h) \ {h}}

\* C12: on hover-enter of an edge (sourceId, targetId) of the canvas the
\* highlight set becomes exactly {sourceId, targetId} united with the
\* ancestors, siblings and descendants of sourceId and those of targetId in
\* the current tree.
C12_EdgeHoverHighlight ==
  lastOp = "edgeEnter" =>
    LET sourceId == related[1].nodeId
        targetId == related[2].nodeId
    IN /\ \E i \in 1..Len(edges) :
            edges[i].source = sourceId /\ edges[i].target = targetId
       /\ highlightedNodes =
            {sourceId, targetId} \cup RelativesOf(flowData, sourceId)
              \cup RelativesOf(flowData, targetId)

C12_Witness ==
  /\ lastOp = "edgeEnter"
  /\ \E i \in SiblingEdgeIndexes :
       /\ edges[i].source = related[1].nodeId
       /\ edges[i].target = related[2].nodeId
  /\ RelativesOf(flowData, related[2].nodeId)
       \ ({related[1].nodeId} \cup RelativesOf(flowData, related[1].nodeId)) # {}
  /\ Len(flowData) = 5
  /\ "" \notin IdsOf(flowData)

----------------------------------------------------------------------------
(* Properties of the expanding component *)

\* the step settles the call t with a decomposition result
ResolvesStep(t) ==
  t \in pending /\ pending' = pending \ {t} /\ lastOp' = "resolved"

\* the step settles the call t with a failure of the decomposition source
FailsStep(t) ==
  t \in pending /\ pending' = pending \ {t} /\ lastOp' = "failed"

\* the ids drawn for the children built in the step
DrawnIds == {FreshId(k) : k \in nextId..(nextId' - 1)}

C14_OneRequestPerNode ==
  /\ [](\A t, u \in pending : t.nodeId = u.nodeId => t = u)
  /\ [][\A h \in 1..Len(flowData) :
          (/\ flowData' # <<>>
           /\ flowData'[1].id = flowData[1].id
           /\ Len(Kids(flowData, h)) > 0)
            => /\ Len(flowData') >= Len(flowData)
               /\ Kids(flowData', h) = Kids(flowData, h)
               /\ \A g \in 1..Len(flowData) : flowData'[g] = flowData[g]]_vars

C14_Witness ==
  /\ Len(flowData) = 3
  /\ \E t \in pending :
       /\ t.nodeId \in isDecomposing
       /\ t.nodeId \in RenderedIds
       /\ ~MayDecompose(t.nodeId)
       /\ MayDecompose_NoInFlightGuard(t.nodeId)

C16_FailureLeavesTree ==
  [][\A t \in pending :
       FailsStep(t)
         => /\ flowData' = flowData /\ nodes' = nodes /\ edges' = edges
            /\ t.nodeId \notin isDecomposing'
            /\ (t.nodeId \in RenderedIds => MayDecompose(t.nodeId)')]_vars

C16_Witness ==
  /\ lastOp = "failed"
  /\ Len(flowData) = 3
  /\ pending = {}
  /\ \E nodeId \in RenderedIds :
       NodeData(flowData, nodeId).depth = 1 /\ MayDecompose(nodeId)

----------------------------------------------------------------------------
(* Properties of decomposeWorkflow *)

\* the returned ratios sum to 1: they share a denominator, which is the sum
\* of their numerators
SumsToOne(ratios) ==
  /\ \A i \in 1..Len(ratios) : ratios[i].den = ratios[1].den
  /\ SumSeq([i \in 1..Len(ratios) |-> ratios[i].num]) = ratios[1].den

\* ratio = w / total, with w and total in thousandths
IsQuotient(ratio, w, total) == ratio.num * total = w * ratio.den

\* C17 (as claimed): for every answer with positive weights w_1..w_k,
\* whatever their sum, the returned ratios sum to 1 and ratio_i is
\* w_i / (w_1 + ... + w_k).
C17_AlwaysNormalized ==
  workflow.pc = "returned" =>
    /\ SumsToOne(workflow.ratios)
    /\ \A i \in 1..Len(workflow.parsed) :
         IsQuotient(workflow.ratios[i], workflow.parsed[i],
                    SumSeq(workflow.parsed))

\* C17 (amended): when the weights' sum differs from 1 by more than 0.01 the
\* returned ratios are w_i / (w_1 + ... + w_k) and sum to 1; when the sum is
\* within 0.01 of 1 the weights are returned unchanged, so that the ratios
\* sum to the weights' sum, within 0.01 of 1.
C17_NormalizedOutsideTolerance ==
  workflow.pc = "returned" =>
    LET total == SumSeq(workflow.parsed)
        off == IF total > RatioOne THEN total - RatioOne ELSE RatioOne - total
    IN IF off > 10
         THEN /\ SumsToOne(workflow.ratios)
              /\ \A i \in 1..Len(workflow.parsed) :
                   IsQuotient(workflow.ratios[i], workflow.parsed[i], total)
         ELSE /\ \A i \in 1..Len(workflow.parsed) :
                   IsQuotient(workflow.ratios[i], workflow.parsed[i], 1000)
              /\ Len(workflow.ratios) = Len(workflow.parsed)

C17_Witness ==
  /\ workflow.pc = "returned"
  /\ Len(workflow.parsed) = 3
  /\ SumSeq(workflow.parsed) = 1500
  /\ workflow.ratios[1] = [num |-> 300, den |-> 1500]

----------------------------------------------------------------------------
(* Properties of the generating component *)

\* C7: under every interleaving of the concurrently expanded subtrees, a
\* sibling group placed at a depth that already holds a group starts at
\* least NODE_SPACING (50) right of the extent tracked for that depth, and
\* no two nodes created at the same depth overlap horizontally.
C7_GroupsClearOfExtent ==
  /\ \A t \in tasks :
       (t.pc = "creating" /\ t.depthInfo # <<>>) =>
         t.startX >= t.depthInfo[1].end + 50
  /\ \A i, j \in 1..Len(nodes) :
       (i # j /\ nodes[i].depth = nodes[j].depth) =>
         (nodes[i].x - nodes[j].x >= 200 \/ nodes[j].x - nodes[i].x >= 200)

C7_Witness ==
  \E t \in tasks :
    /\ t.pc = "creating"
    /\ t.depthInfo # <<>>
    /\ t.startX # StartX(t.x, Len(t.parts))
    /\ Len(t.levelNodes) = 2
    /\ \E u \in tasks : u # t /\ u.pc = "creating" /\ u.depth = t.depth

ProjectionOf(T) ==
  IF T = <<>> THEN [nodes |-> <<>>, edges |-> <<>>] ELSE StoreLayout(T)

\* C19 as stated: after any sequence of store operations the node list and
\* the edge list are exactly the layout projection of the current tree
C19_ListsAlwaysProjectTree ==
  /\ nodes = ProjectionOf(flowData).nodes
  /\ edges = ProjectionOf(flowData).edges

\* C19, amended: directly after initializeFromData the two lists are exactly
\* the layout projection of the tree it was given, whatever the store held
\* before, and directly after resetFlow both are empty
C19_SetTreeReplacesWholesale ==
  /\ lastOp = "initializeFromData" =>
       /\ nodes = ProjectionOf(flowData).nodes
       /\ edges = ProjectionOf(flowData).edges
       /\ RenderedIds = IdsOf(flowData)
       /\ Len(nodes) = Len(flowData)
       /\ \A i \in 1..Len(edges) :
            /\ IsParentEdge(edges[i]) \/ IsSiblingEdge(edges[i])
            /\ {edges[i].source, edges[i].target} \subseteq IdsOf(flowData)
  /\ lastOp = "resetFlow" => nodes = <<>> /\ edges = <<>>

C19_Witness ==
  /\ lastOp = "initializeFromData"
  /\ Len(flowData) = 2
  /\ Len(nodes) = 2
  /\ Len(edges) = 1

\* a tree made by generating a root and decomposing it into two parts with
\* ratios 0.4 and 0.6
GrownInTwo ==
  /\ lastOp = "resolved"
  /\ Len(flowData) = 3
  /\ flowData[2].par = 1 /\ flowData[3].par = 1
  /\ flowData[2].ratio = [num |-> 2, den |-> 5]
  /\ flowData[3].ratio = [num |-> 3, den |-> 5]

\* C20: after a childless root is set and grown by two parts with ratios 0.4
\* and 0.6, the layout has 3 nodes, 2 parent edges and 1 sibling edge from the
\* first part to the second, and the relationship query for the second part
\* returns ancestors = [root], siblings = [first part], descendants = []
C20_GrowThenQuery ==
  GrownInTwo =>
    LET root == flowData[1].id
        plan == flowData[2].id
        build == flowData[3].id
        r == Related(build, flowData)
    IN /\ Len(nodes) = 3
       /\ Cardinality({i \in 1..Len(edges) : IsParentEdge(edges[i])}) = 2
       /\ {<<edges[i].source, edges[i].target>> :
             i \in {j \in 1..Len(edges) : IsSiblingEdge(edges[j])}}
            = {<<plan, build>>}
       /\ Len(edges) = 3
       /\ r.ancestors = <<root>>
       /\ r.siblings = <<plan>>
       /\ r.descendants = <<>>

\* C21: in every tree the application installs or reaches the root has
\* depth 0 and every child has the depth of its parent plus one
C21_DepthInvariant ==
  flowData # <<>> =>
    /\ flowData[1].depth = 0
    /\ \A h \in 2..Len(flowData) :
         flowData[h].depth = flowData[flowData[h].par].depth + 1

\* the sum of the ratios of the nodes at the handles kids[index..], as a
\* fraction
RECURSIVE RatioSum(_, _, _)
RatioSum(T, kids, index) ==
  IF index > Len(kids) THEN [num |-> 0, den |-> 1]
  ELSE LET a == T[kids[index]].ratio
           b == RatioSum(T, kids, index + 1)
       IN [num |-> a.num * b.den + b.num * a.den, den |-> a.den * b.den]

\* a fraction within 0.01 of 1
NearOne(f) ==
  /\ 100 * f.num - 100 * f.den <= f.den
  /\ 100 * f.den - 100 * f.num <= f.den

\* C22: in every tree the application installs or reaches, the ratios of the
\* children of any node with children sum to 1 within a tolerance of 0.01
C22_ChildRatiosSumToOne ==
  \A h \in 1..Len(flowData) :
    Len(Kids(flowData, h)) > 0 =>
      NearOne(RatioSum(flowData, Kids(flowData, h), 1))

\* the lists on the canvas are the layout of the current tree and highlight
\* set, whatever was laid out before
LayoutOfTreeAndHighlight ==
  flowData # <<>> =>
    LET r == convertFlowDataToNodesAndEdges(flowData, NullId, 0, 0,
                                            highlightedNodes)
    IN nodes = r.nodes /\ edges = r.edges

\* every tracked extent starts at a node of the current generation: none is
\* left from an earlier one
ExtentsOfThisGeneration ==
  \A d \in DOMAIN depthNodesRef :
    \E i \in 1..Len(nodes) :
      nodes[i].depth = d /\ nodes[i].x = depthNodesRef[d].start

C24_NodeHoverHighlight ==
  /\ lastOp = "nodeEnter" =>
       /\ Len(related) = 1
       /\ related[1].nodeId \in RenderedIds
       /\ highlightedNodes =
            {related[1].nodeId} \cup RelativesOf(flowData, related[1].nodeId)
  /\ lastOp = "leave" => highlightedNodes = {}

C24_Witness ==
  /\ lastOp = "nodeEnter"
  /\ Cardinality(highlightedNodes) >= 3
  /\ highlightedNodes # IdsOf(flowData)
  /\ \E h \in 2..Len(flowData) :
       /\ flowData[h].id = related[1].nodeId
       /\ Len(Kids(flowData, h)) > 0

\* a node of the canvas without its highlighted flag
Placed(n) == [id |-> n.id, x |-> n.x, y |-> n.y, depth |-> n.depth]

\* an edge of the canvas without its emphasis
Joined(e) == [id |-> e.id, source |-> e.source, target |-> e.target]

PlacedGroups == {t \in tasks : t.pc = "creating"}

\* x - totalWidth / 2 of the call t
Centered(t) == t.x - (TotalWidth(Len(t.parts)) \div 2)

\* the centered span of the group of t overlaps the extent found at its depth
SpanOverlaps(t) ==
  /\ t.depthInfo # <<>>
  /\ Centered(t) < t.depthInfo[1].end
  /\ Centered(t) + TotalWidth(Len(t.parts)) > t.depthInfo[1].start

\* the extent tracked at the depth of t covers the group of t
ExtentCovers(t) ==
  /\ t.depth \in DOMAIN depthNodesRef
  /\ depthNodesRef[t.depth].start <= t.startX
  /\ depthNodesRef[t.depth].end >= t.startX + TotalWidth(Len(t.parts))

LeafLabels ==
  {nodes[i].label :
     i \in {j \in 1..Len(nodes) :
              \A k \in 1..Len(edges) : edges[k].source # nodes[j].id}}

\* C27: the recursive generation started by handleGenerate terminates and
\* isLoading eventually returns to false, and every leaf of the finished
\* graph has a label of length at most 1
C27_GenerationTerminates ==
  /\ [](lastOp = "finished" => \A label \in LeafLabels : label <= 1)
  /\ (isLoading ~> ~isLoading)

\* the ids and positions of a node list, in order
Positions(ns) == [i \in 1..Len(ns) |-> <<ns[i].id, ns[i].x, ns[i].y>>]

\* the (source, target) pairs of an edge list, in order
Pairs(es) == [i \in 1..Len(es) |-> <<es[i].source, es[i].target>>]

\* C28: for every tree the store's initializeFromData and
\* convertFlowDataToNodesAndEdges (parentId null, origin (0, 0), empty
\* highlight set) produce the same sequence of node ids with the same
\* positions and the same sequence of edge (source, target) pairs
C28_StoreMatchesComponent ==
  lastOp = "initializeFromData" =>
    LET r == convertFlowDataToNodesAndEdges(flowData, NullId, 0, 0, {})
    IN /\ Positions(nodes) = Positions(r.nodes)
       /\ Pairs(edges) = Pairs(r.edges)

\* C29: for every model output with one fenced json block and every way of
\* splitting it into chunks, the response stream enqueues exactly the
\* characters between the opening fence and the next closing fence, in
\* order, and then closes
C29_StreamsBlockContent ==
  stream.pc = "closed" => stream.enqueued = stream.output.content

====
